---- MODULE Spec2Model ----
(***************************************************************************)
(* Model of the SR1 quasi-Newton solver (src/solver/quasinewton/sr1.rs):   *)
(* the solver's inverse-Hessian approximation, its line-search field, and  *)
(* the init / next_iter / terminate operations driven by an iteration      *)
(* loop.                                                                   *)
(*                                                                         *)
(* f64 values are modelled as exact numbers (n/d) * 2^e extended with the  *)
(* IEEE special values (infinities, NaN): rounding is abstracted, division *)
(* by zero and 0 * inf behave as in IEEE 754.  The sign of a zero is not   *)
(* tracked; the sign of 1.0/0.0 is an input of the step.                   *)
(***************************************************************************)
EXTENDS Integers, Sequences, FiniteSets, TLC

(***************************************************************************)
(* Bounds of the model.                                                    *)
(***************************************************************************)
\* the driver's iteration budget (max_iters of the external executor)
MaxIter == 2

(***************************************************************************)
(* f64 arithmetic.  A value is <<kind, n, d, e>>:                          *)
(*   <<"fin", n, d, e>>  the number (n/d) * 2^e, n odd or 0, d odd, d > 0  *)
(*   <<"inf", s, 1, 0>>  s * infinity, s in {1, -1}                        *)
(*   <<"nan", 0, 1, 0>>  NaN                                               *)
(***************************************************************************)
RECURSIVE GCD(_, _)
GCD(a, b) == IF b = 0 THEN a ELSE GCD(b, a % b)

RECURSIVE TwoAdic(_)
TwoAdic(n) == IF n % 2 = 0 THEN 1 + TwoAdic(n \div 2) ELSE 0

IAbs(n) == IF n < 0 THEN -n ELSE n

ISign(n) == IF n < 0 THEN -1 ELSE IF n = 0 THEN 0 ELSE 1

IMin(a, b) == IF a <= b THEN a ELSE b

NaN == <<"nan", 0, 1, 0>>

Inf(s) == <<"inf", s, 1, 0>>

Zero == <<"fin", 0, 1, 0>>

\* the number (n/d) * 2^e in normal form (d > 0)
MkFin(n, d, e) ==
    IF n = 0 THEN Zero
    ELSE LET tn == TwoAdic(IAbs(n))
             td == TwoAdic(d)
             n1 == n \div (2 ^ tn)
             d1 == d \div (2 ^ td)
             g  == GCD(IAbs(n1), d1)
         IN  <<"fin", n1 \div g, d1 \div g, e + tn - td>>

\* an integer as an f64
Num(i) == MkFin(i, 1, 0)

IsNaN(a) == a[1] = "nan"

IsInf(a) == a[1] = "inf"

IsZero(a) == a[1] = "fin" /\ a[2] = 0

\* the sign of a non-NaN value: -1, 0 or 1
FSign(a) == ISign(a[2])

FNeg(a) == IF IsNaN(a) THEN NaN ELSE <<a[1], -a[2], a[3], a[4]>>

FAbs(a) == IF IsNaN(a) THEN NaN ELSE <<a[1], IAbs(a[2]), a[3], a[4]>>

FAdd(a, b) ==
    IF IsNaN(a) \/ IsNaN(b) THEN NaN
    ELSE IF IsInf(a) /\ IsInf(b) THEN (IF a[2] = b[2] THEN a ELSE NaN)
    ELSE IF IsInf(a) THEN a
    ELSE IF IsInf(b) THEN b
    ELSE IF IsZero(a) THEN b
    ELSE IF IsZero(b) THEN a
    ELSE LET e == IMin(a[4], b[4])
             g == GCD(a[3], b[3])
             l == (a[3] \div g) * b[3]
         IN  MkFin(a[2] * (2 ^ (a[4] - e)) * (l \div a[3])
                     + b[2] * (2 ^ (b[4] - e)) * (l \div b[3]), l, e)

FSub(a, b) == FAdd(a, FNeg(b))

FMul(a, b) ==
    IF IsNaN(a) \/ IsNaN(b) THEN NaN
    ELSE IF IsInf(a) \/ IsInf(b)
         THEN (IF IsZero(a) \/ IsZero(b) THEN NaN ELSE Inf(FSign(a) * FSign(b)))
    ELSE IF IsZero(a) \/ IsZero(b) THEN Zero
    ELSE LET g1 == GCD(IAbs(a[2]), b[3])
             g2 == GCD(IAbs(b[2]), a[3])
         IN  MkFin((a[2] \div g1) * (b[2] \div g2),
                   (a[3] \div g2) * (b[3] \div g1), a[4] + b[4])

\* a / b; zs is the sign of the result when a finite nonzero a is divided by zero
FDiv(a, b, zs) ==
    IF IsNaN(a) \/ IsNaN(b) THEN NaN
    ELSE IF IsInf(a) THEN (IF IsInf(b) THEN NaN
                           ELSE IF IsZero(b) THEN Inf(a[2] * zs)
                           ELSE Inf(a[2] * FSign(b)))
    ELSE IF IsInf(b) THEN Zero
    ELSE IF IsZero(b) THEN (IF IsZero(a) THEN NaN ELSE Inf(FSign(a) * zs))
    ELSE IF IsZero(a) THEN Zero
    ELSE LET g1 == GCD(IAbs(a[2]), IAbs(b[2]))
             g2 == GCD(a[3], b[3])
         IN  MkFin(FSign(b) * (a[2] \div g1) * (b[3] \div g2),
                   (a[3] \div g2) * (IAbs(b[2]) \div g1), a[4] - b[4])

RECURSIVE FloorLog2(_)
FloorLog2(n) == IF n <= 1 THEN 0 ELSE 1 + FloorLog2(n \div 2)

\* floor(log2(n/d)) for n, d > 0
FracLog2(n, d) ==
    LET j == FloorLog2(n) - FloorLog2(d)
    IN  IF j >= 0
        THEN (IF n \div (2 ^ j) >= d THEN j ELSE j - 1)
        ELSE (IF n >= (d + (2 ^ (-j)) - 1) \div (2 ^ (-j)) THEN j ELSE j - 1)

\* comparison of the fractions p1/q1 and p2/q2 (all > 0) by their continued
\* fractions: -1, 0 or 1
RECURSIVE CmpFrac(_, _, _, _)
CmpFrac(p1, q1, p2, q2) ==
    LET f1 == p1 \div q1
        f2 == p2 \div q2
        r1 == p1 % q1
        r2 == p2 % q2
    IN  IF f1 # f2 THEN (IF f1 < f2 THEN -1 ELSE 1)
        ELSE IF r1 = 0 /\ r2 = 0 THEN 0
        ELSE IF r1 = 0 THEN -1
        ELSE IF r2 = 0 THEN 1
        ELSE CmpFrac(q2, r2, q1, r1)

\* comparison of two positive finite values: -1, 0 or 1; first by the binary
\* order of magnitude, then by the mantissas in [1, 2)
CmpMag(a, b) ==
    LET ja == FracLog2(a[2], a[3])
        jb == FracLog2(b[2], b[3])
        pa == IF ja >= 0 THEN a[2] ELSE a[2] * (2 ^ (-ja))
        qa == IF ja >= 0 THEN a[3] * (2 ^ ja) ELSE a[3]
        pb == IF jb >= 0 THEN b[2] ELSE b[2] * (2 ^ (-jb))
        qb == IF jb >= 0 THEN b[3] * (2 ^ jb) ELSE b[3]
    IN  IF ja + a[4] # jb + b[4] THEN (IF ja + a[4] < jb + b[4] THEN -1 ELSE 1)
        ELSE CmpFrac(pa, qa, pb, qb)

\* comparison of two non-NaN values: -1, 0 or 1
FCmp(a, b) ==
    IF FSign(a) # FSign(b) THEN (IF FSign(a) < FSign(b) THEN -1 ELSE 1)
    ELSE IF FSign(a) = 0 THEN 0
    ELSE IF IsInf(a) /\ IsInf(b) THEN 0
    ELSE IF IsInf(a) THEN FSign(a)
    ELSE IF IsInf(b) THEN -FSign(b)
    ELSE FSign(a) * CmpMag(FAbs(a), FAbs(b))

\* a < b and a >= b of f64: false when an operand is NaN
FLt(a, b) == ~IsNaN(a) /\ ~IsNaN(b) /\ FCmp(a, b) < 0

FGe(a, b) == ~IsNaN(a) /\ ~IsNaN(b) /\ FCmp(a, b) >= 0

(***************************************************************************)
(* Vector and matrix algebra on the parameter type (a tuple of f64) and    *)
(* the Hessian type (a tuple of rows), as required by the trait bounds of  *)
(* impl Solver for SR1.                                                    *)
(***************************************************************************)
RECURSIVE FSum(_)
FSum(xs) == IF xs = <<>> THEN Zero ELSE FAdd(Head(xs), FSum(Tail(xs)))

\* ArgminSub<Param, Param>
VSub(u, v) == [i \in DOMAIN u |-> FSub(u[i], v[i])]

\* ArgminDot<Param, f64>
VDot(u, v) == FSum([i \in DOMAIN u |-> FMul(u[i], v[i])])

\* ArgminDot<Param, Hessian>: the outer product
VOuter(u, v) == [i \in DOMAIN u |-> [j \in DOMAIN v |-> FMul(u[i], v[j])]]

\* ArgminMul<f64, Param>
VScale(u, c) == [i \in DOMAIN u |-> FMul(u[i], c)]

\* ArgminScaledAdd<Param, f64, Param>: u + c * v
VScaledAdd(u, c, v) == [i \in DOMAIN u |-> FAdd(u[i], FMul(c, v[i]))]

\* ArgminDot<Param, Param> on the Hessian type: matrix times vector
MatVec(m, v) == [i \in DOMAIN m |-> VDot(m[i], v)]

\* ArgminAdd<Hessian, Hessian>
MatAdd(m, k) == [i \in DOMAIN m |-> [j \in DOMAIN m[i] |-> FAdd(m[i][j], k[i][j])]]

\* ArgminMul<f64, Hessian>
MatScale(m, c) == [i \in DOMAIN m |-> [j \in DOMAIN m[i] |-> FMul(m[i][j], c)]]

\* a vector, a matrix of integers as f64 values, scaled by 2^k
Scaled(a, k) == IF IsZero(a) THEN a ELSE <<a[1], a[2], a[3], a[4] + k>>

Vec(iv, k) == [i \in DOMAIN iv |-> Scaled(Num(iv[i]), k)]

Mat(im) == [i \in DOMAIN im |-> Vec(im[i], 0)]

(***************************************************************************)
(* The collaborators of the solver: the objective (op), the line search    *)
(* and the iteration state kept by the driver.                             *)
(***************************************************************************)
\* std::f64::EPSILON = 2^-52
EPSILON == <<"fin", 1, 1, -52>>

\* the f64 literal 1.0
One == Num(1)

\* the objectives: the quadratic bowl f(x,y) = (x-1)^2 + (y-2)^2 with an
\* exact line search, and an unconstrained objective whose evaluations return
\* any of a few values (scaled by a power of two) or fail
Scales == {-30, 0, 11}

Ops == {[kind |-> "bowl", scale |-> 0]} \cup {[kind |-> "free", scale |-> k] : k \in Scales}

StartParams(o) ==
    IF o.kind = "bowl" THEN {Vec(<<0, 0>>, 0), Vec(<<3, 0>>, 0)}
    ELSE {Vec(<<0, 0>>, 0)}

Identity == Mat(<<<<1, 0>>, <<0, 1>>>>)

\* the identity, and for the bowl a symmetric positive definite matrix and the
\* bowl's exact inverse Hessian, for the other objective a symmetric indefinite
\* matrix and a matrix that is not symmetric
StartHessians(o) ==
    IF o.kind = "bowl"
    THEN {Identity, Mat(<<<<2, 1>>, <<1, 1>>>>), MatScale(Identity, <<"fin", 1, 1, -1>>)}
    ELSE {Identity, Mat(<<<<0, 1>>, <<1, 0>>>>), Mat(<<<<1, 1>>, <<0, 1>>>>)}

FreeGrads(k) == {Vec(<<0, 0>>, k), Vec(<<-2, -4>>, k), Vec(<<-1, -4>>, k)}

FreeCosts == {Zero, <<"fin", 1, 1, -60>>, <<"fin", 1, 1, -40>>}

FreeAlphas == {Zero, <<"fin", 1, 1, -1>>, One}

BowlCost(x) ==
    LET dx == FSub(x[1], Num(1))
        dy == FSub(x[2], Num(2))
    IN  FAdd(FMul(dx, dx), FMul(dy, dy))

BowlGrad(x) == <<FMul(Num(2), FSub(x[1], Num(1))), FMul(Num(2), FSub(x[2], Num(2)))>>

Ok(v) == [ok |-> TRUE, val |-> v]

Err(e) == [ok |-> FALSE, val |-> e]

\* op.apply(x): Result<f64, Error>
ApplyOutcomes(o, x) ==
    IF o.kind = "bowl" THEN {Ok(BowlCost(x))}
    ELSE {Err("EvaluationError")} \cup {Ok(c) : c \in FreeCosts}

\* op.gradient(x): Result<Param, Error>
GradientOutcomes(o, x) ==
    IF o.kind = "bowl" THEN {Ok(BowlGrad(x))}
    ELSE {Err("EvaluationError")} \cup {Ok(g) : g \in FreeGrads(o.scale)}

\* the run of a configured line search: a point init_param + alpha *
\* search_direction and its cost, no worse than init_cost, or an error.
\* On the bowl the line search is exact and fails when the direction is not a
\* descent direction.
LineSearchOutcomes(o, ls) ==
    IF o.kind = "bowl"
    THEN LET gp == VDot(ls.init_grad, ls.search_direction)
             pp == VDot(ls.search_direction, ls.search_direction)
         IN  IF FGe(gp, Zero) \/ IsNaN(gp) THEN {Err("LineSearchError")}
             ELSE LET alpha == FDiv(FNeg(gp), FMul(Num(2), pp), 1)
                      x == VScaledAdd(ls.init_param, alpha, ls.search_direction)
                  IN  {Ok([param |-> x, cost |-> BowlCost(x)])}
    ELSE {Err("LineSearchError")}
         \cup {Ok([param |-> VScaledAdd(ls.init_param, alpha, ls.search_direction),
                   cost |-> c]) :
                 alpha \in FreeAlphas, c \in {k \in FreeCosts : FGe(ls.init_cost, k)}}

\* IterState::new(param): costs start at infinity, no gradient yet
NewIterState(x) ==
    [cur_param |-> x, cur_cost |-> Inf(1), cur_grad |-> <<>>, prev_cost |-> Inf(1)]

\* the driver's update of the iteration state from an ArgminIterData
UpdatedState(st, data) ==
    [cur_param |-> data.param, cur_cost |-> data.cost, cur_grad |-> data.grad,
     prev_cost |-> st.cur_cost]

\* the line search as constructed: nothing configured yet
NewLineSearch ==
    [init_param |-> <<>>, init_grad |-> <<>>, init_cost |-> Inf(1),
     search_direction |-> <<>>]

(***************************************************************************)
(* SR1                                                                     *)
(***************************************************************************)
\* a Direction that forgets the sign: p = H * g
DirectionNotNegated(h, g) == MatVec(h, g)

\* p = -(H * g)
Direction(h, g) == VScale(MatVec(h, g), Num(-1))

\* a ConfiguredLineSearch that sets the search direction only when none is set
ConfiguredLineSearchOnce(ls, st, p) ==
    [init_param |-> st.cur_param, init_grad |-> st.cur_grad,
     init_cost |-> st.cur_cost,
     search_direction |-> IF ls.search_direction = <<>> THEN p
                          ELSE ls.search_direction]

\* set_init_param, set_init_grad, set_init_cost, set_search_direction
ConfiguredLineSearch(ls, st, p) ==
    [init_param |-> st.cur_param, init_grad |-> st.cur_grad,
     init_cost |-> st.cur_cost, search_direction |-> p]

\* the literal 10e-8
GuardFactor == <<"fin", 1, 78125, -7>>

\* b.abs() >= 10e-8 * sk_norm * skmhkyk_norm
Guard(b, sk_norm, skmhkyk_norm) ==
    FGe(FAbs(b), FMul(FMul(GuardFactor, sk_norm), skmhkyk_norm))

\* an UpdatedInvHessian that replaces the approximation by the correction
UpdatedInvHessianReplaced(h, a, b, zs) == MatScale(a, FDiv(One, b, zs))

\* self.inv_hessian.add(&a.mul(&(1.0 / b)))
UpdatedInvHessian(h, a, b, zs) == MatAdd(h, MatScale(a, FDiv(One, b, zs)))

\* a NextInvHessian whose numerator is the outer product of v_k and y_k
NextInvHessianAsymmetric(h, sk, yk, zs) ==
    LET skmhkyk == VSub(sk, MatVec(h, yk))
        a == VOuter(skmhkyk, yk)
        b == VDot(skmhkyk, yk)
        sk_norm == VDot(sk, sk)
        skmhkyk_norm == VDot(skmhkyk, skmhkyk)
    IN  IF Guard(b, sk_norm, skmhkyk_norm) THEN UpdatedInvHessian(h, a, b, zs) ELSE h

\* the inverse Hessian after lines 182-190
NextInvHessian(h, sk, yk, zs) ==
    LET skmhkyk == VSub(sk, MatVec(h, yk))
        a == VOuter(skmhkyk, skmhkyk)
        b == VDot(skmhkyk, yk)
        sk_norm == VDot(sk, sk)
        skmhkyk_norm == VDot(skmhkyk, skmhkyk)
    IN  IF Guard(b, sk_norm, skmhkyk_norm) THEN UpdatedInvHessian(h, a, b, zs) ELSE h

\* a TerminationReason that checks the cost change first
TerminationReasonCostFirst(st) ==
    IF FLt(FAbs(FSub(st.prev_cost, st.cur_cost)), EPSILON) THEN "NoChangeInCost"
    ELSE IF FLt(VDot(st.cur_grad, st.cur_grad), EPSILON) THEN "TargetPrecisionReached"
    ELSE "NotTerminated"

\* cur_grad.norm() < EPSILON.sqrt(), both sides squared
GradNormBelow(g) == FLt(VDot(g, g), EPSILON)

TerminationReason(st) ==
    IF GradNormBelow(st.cur_grad) THEN "TargetPrecisionReached"
    ELSE IF FLt(FAbs(FSub(st.prev_cost, st.cur_cost)), EPSILON) THEN "NoChangeInCost"
    ELSE "NotTerminated"

(***************************************************************************)
(* State.                                                                  *)
(***************************************************************************)
VARIABLES
    op,            \* the objective given to the driver
    init_param,    \* the starting parameter given to the driver
    init_hessian,  \* the inverse Hessian given to SR1::new
    inv_hessian,   \* SR1.inv_hessian
    linesearch,    \* SR1.linesearch (its configuration)
    state,         \* the driver's IterState
    pc,            \* the driver: "new", "iterating", "check", "done", "failed"
    iter,          \* the number of completed next_iter calls
    result,        \* what the last init / next_iter call returned
    reason,        \* what the last terminate call returned
    call           \* the inputs and collaborator answers of the last call

vars == <<op, init_param, init_hessian, inv_hessian, linesearch, state, pc, iter,
          result, reason, call>>

NoData == [param |-> <<>>, cost |-> NaN, grad |-> <<>>]

Success(name, data) == [name |-> name, ok |-> TRUE, data |-> data, err |-> ""]

Failure(name, e) == [name |-> name, ok |-> FALSE, data |-> NoData, err |-> e]

NoCall ==
    [name |-> "none", h_pre |-> <<>>, st_pre |-> NewIterState(<<>>),
     ls_run |-> NewLineSearch, ls_ok |-> FALSE, xk1 |-> <<>>, ls_cost |-> NaN,
     apply_ok |-> FALSE, apply_val |-> NaN, grad_ok |-> FALSE, gk1 |-> <<>>]

\* SR1::new(init_inverse_hessian, linesearch) and the driver's IterState
Init ==
    /\ op \in Ops
    /\ init_param \in StartParams(op)
    /\ init_hessian \in StartHessians(op)
    /\ inv_hessian = init_hessian
    /\ linesearch = NewLineSearch
    /\ state = NewIterState(init_param)
    /\ pc = "new"
    /\ iter = 0
    /\ result = Failure("none", "")
    /\ reason = "NotTerminated"
    /\ call = NoCall

\* an InitResult that takes a failed gradient evaluation for an empty gradient
InitResultGradientUnchecked(st, c, g) ==
    IF ~c.ok THEN Failure("init", c.val)
    ELSE Success("init", [param |-> st.cur_param, cost |-> c.val,
                          grad |-> IF g.ok THEN g.val ELSE <<>>])

\* what init returns for the answers c and g of op.apply and op.gradient
InitResult(st, c, g) ==
    IF ~c.ok THEN Failure("init", c.val)
    ELSE IF ~g.ok THEN Failure("init", g.val)
    ELSE Success("init", [param |-> st.cur_param, cost |-> c.val, grad |-> g.val])

\* Solver::init, and the driver taking its result
SolverInit ==
    /\ pc = "new"
    /\ \E c \in ApplyOutcomes(op, state.cur_param),
          g \in GradientOutcomes(op, state.cur_param) :
         LET r == InitResult(state, c, g)
         IN  /\ result' = r
             /\ state' = IF r.ok THEN UpdatedState(state, r.data) ELSE state
             /\ pc' = IF r.ok THEN "iterating" ELSE "failed"
             /\ call' = [NoCall EXCEPT !.name = "init", !.h_pre = inv_hessian,
                                       !.st_pre = state,
                                       !.apply_ok = c.ok,
                                       !.apply_val = IF c.ok THEN c.val ELSE NaN,
                                       !.grad_ok = c.ok /\ g.ok,
                                       !.gk1 = IF c.ok /\ g.ok THEN g.val ELSE <<>>]
    /\ UNCHANGED <<op, init_param, init_hessian, inv_hessian, linesearch, iter, reason>>

\* y_k and s_k of the step from st to the point xk1 with gradient grad
GradDiff(st, grad) == VSub(grad, st.cur_grad)

ParamDiff(st, xk1) == VSub(xk1, st.cur_param)

\* the denominator b of that step
Denominator(h, st, xk1, grad) ==
    LET yk == GradDiff(st, grad)
        sk == ParamDiff(st, xk1)
    IN  VDot(VSub(sk, MatVec(h, yk)), yk)

\* a NextIterInvHessian that updates with a zero gradient when the gradient
\* evaluation failed
NextIterInvHessianEarly(h, st, lsr, gr, zs) ==
    IF ~lsr.ok THEN h
    ELSE NextInvHessian(h, ParamDiff(st, lsr.val.param),
                        GradDiff(st, IF gr.ok THEN gr.val
                                     ELSE [i \in DOMAIN st.cur_grad |-> Zero]), zs)

\* the inverse Hessian next_iter leaves, for the answers lsr of the line search
\* and gr of op.gradient: both `?` return before the update
NextIterInvHessian(h, st, lsr, gr, zs) ==
    IF ~lsr.ok THEN h
    ELSE IF ~gr.ok THEN h
    ELSE NextInvHessian(h, ParamDiff(st, lsr.val.param), GradDiff(st, gr.val), zs)

\* what next_iter returns
NextIterResult(lsr, gr) ==
    IF ~lsr.ok THEN Failure("next_iter", lsr.val)
    ELSE IF ~gr.ok THEN Failure("next_iter", gr.val)
    ELSE Success("next_iter", [param |-> lsr.val.param, cost |-> lsr.val.cost,
                               grad |-> gr.val])

NotEvaluated == Err("none")

\* Solver::next_iter, and the driver taking its result
NextIter ==
    /\ pc = "iterating"
    /\ iter < MaxIter
    /\ LET p == Direction(inv_hessian, state.cur_grad)
           ls == ConfiguredLineSearch(linesearch, state, p)
       IN  /\ linesearch' = ls
           /\ \E lsr \in LineSearchOutcomes(op, ls) :
                \E gr \in (IF lsr.ok THEN GradientOutcomes(op, lsr.val.param)
                           ELSE {NotEvaluated}) :
                  \E zs \in (IF lsr.ok /\ gr.ok
                                /\ IsZero(Denominator(inv_hessian, state,
                                                      lsr.val.param, gr.val))
                             THEN {1, -1} ELSE {1}) :
                    LET r == NextIterResult(lsr, gr)
                    IN  /\ inv_hessian' = NextIterInvHessian(inv_hessian, state, lsr, gr, zs)
                        /\ result' = r
                        /\ call' = [NoCall EXCEPT
                                      !.name = "next_iter",
                                      !.h_pre = inv_hessian,
                                      !.st_pre = state,
                                      !.ls_run = ls,
                                      !.ls_ok = lsr.ok,
                                      !.xk1 = IF lsr.ok THEN lsr.val.param ELSE <<>>,
                                      !.ls_cost = IF lsr.ok THEN lsr.val.cost ELSE NaN,
                                      !.grad_ok = lsr.ok /\ gr.ok,
                                      !.gk1 = IF lsr.ok /\ gr.ok THEN gr.val ELSE <<>>]
                        /\ state' = IF r.ok THEN UpdatedState(state, r.data) ELSE state
                        /\ iter' = IF r.ok THEN iter + 1 ELSE iter
                        /\ pc' = IF r.ok THEN "check" ELSE "failed"
    /\ UNCHANGED <<op, init_param, init_hessian, reason>>

\* Solver::terminate, and the driver taking its answer
Terminate ==
    /\ pc = "check"
    /\ reason' = TerminationReason(state)
    /\ pc' = IF reason' = "NotTerminated" THEN "iterating" ELSE "done"
    /\ UNCHANGED <<op, init_param, init_hessian, inv_hessian, linesearch, state, iter,
                   result, call>>

Next == SolverInit \/ NextIter \/ Terminate

Spec == Init /\ [][Next]_vars

(***************************************************************************)
(* The quantities of the last step, recomputed from what the step was      *)
(* given (call.st_pre, call.h_pre) and what its collaborators answered     *)
(* (call.xk1, call.gk1).                                                   *)
(***************************************************************************)
\* the last call was a next_iter that got past the line search and the gradient
StepDone == call.name = "next_iter" /\ call.ls_ok /\ call.grad_ok

\* s_k = x_{k+1} - x_k
Sk == [i \in DOMAIN call.xk1 |-> FSub(call.xk1[i], call.st_pre.cur_param[i])]

\* y_k = g_{k+1} - g_k
Yk == [i \in DOMAIN call.gk1 |-> FSub(call.gk1[i], call.st_pre.cur_grad[i])]

\* H_k * y_k
HkYk == [i \in DOMAIN call.h_pre |->
           FSum([j \in DOMAIN Yk |-> FMul(call.h_pre[i][j], Yk[j])])]

\* v_k = s_k - H_k * y_k
Vk == [i \in DOMAIN Sk |-> FSub(Sk[i], HkYk[i])]

\* v_k . y_k, s_k . s_k, v_k . v_k
VkYk == FSum([i \in DOMAIN Vk |-> FMul(Vk[i], Yk[i])])

SkSk == FSum([i \in DOMAIN Sk |-> FMul(Sk[i], Sk[i])])

VkVk == FSum([i \in DOMAIN Vk |-> FMul(Vk[i], Vk[i])])

\* H_k + (v_k (outer) v_k) / (v_k . y_k); zs is the sign of a division by zero
Sr1Formula(zs) ==
    [i \in DOMAIN call.h_pre |-> [j \in DOMAIN call.h_pre[i] |->
        FAdd(call.h_pre[i][j], FDiv(FMul(Vk[i], Vk[j]), VkYk, zs))]]

\* |v_k . y_k| >= r * (s_k . s_k) * (v_k . v_k)
GuardPasses(r) == FGe(FAbs(VkYk), FMul(FMul(r, SkSk), VkVk))

\* the guard factor as the specification states it, 1e-8, and as the code
\* writes it, 10e-8
SpecFactor == <<"fin", 1, 390625, -8>>

CodeFactor == <<"fin", 1, 78125, -7>>

IsSymmetric(m) == \A i \in DOMAIN m : \A j \in DOMAIN m : m[i][j] = m[j][i]

(***************************************************************************)
(* Claims.                                                                 *)
(***************************************************************************)

\* C1: whenever the correction vector v_k = s_k - H_k*y_k of a step is zero,
\* the inverse-Hessian approximation after the step equals, entry by entry,
\* its value before the step.
C1_ZeroCorrectionKeepsHessian ==
    (StepDone /\ \A i \in DOMAIN Vk : IsZero(Vk[i])) => inv_hessian = call.h_pre

\* C2: the update is applied if and only if |v_k . y_k| >= 1e-8 * (s_k . s_k) *
\* (v_k . v_k); below that threshold the inverse-Hessian approximation is left
\* unchanged, and the step returns the new point, cost and gradient.
C2_GuardThreshold ==
    StepDone =>
        /\ result = Success("next_iter", [param |-> call.xk1, cost |-> call.ls_cost,
                                          grad |-> call.gk1])
        /\ IF GuardPasses(SpecFactor)
           THEN \E zs \in {1, -1} : inv_hessian = Sr1Formula(zs)
           ELSE inv_hessian = call.h_pre

\* C3: whenever the stability guard of next_iter passes, the inverse-Hessian
\* approximation after the step equals H_k + (v_k (outer) v_k) / (v_k . y_k),
\* with H_k the approximation at the start of the step.
C3_UpdateFormula ==
    (StepDone /\ GuardPasses(CodeFactor)) =>
        \E zs \in {1, -1} : inv_hessian = Sr1Formula(zs)

\* C3 witness: a step whose guard passed with a nonzero denominator and that
\* changed the approximation
C3_Witness ==
    /\ StepDone
    /\ GuardPasses(CodeFactor)
    /\ ~IsZero(VkYk)
    /\ inv_hessian # call.h_pre
    /\ iter = 2

\* the gradient-norm and the cost-change conditions of terminate on st
GradientSmall(st) ==
    FLt(FSum([i \in DOMAIN st.cur_grad |-> FMul(st.cur_grad[i], st.cur_grad[i])]),
        EPSILON)

CostUnchanged(st) == FLt(FAbs(FSub(st.prev_cost, st.cur_cost)), EPSILON)

\* C4: terminate returns TargetPrecisionReached whenever the gradient norm is
\* below sqrt(machine epsilon), whatever the costs; NoChangeInCost exactly when
\* that is false and |prev_cost - cur_cost| < machine epsilon; NotTerminated
\* otherwise; and it changes neither the iteration state nor the
\* inverse-Hessian approximation.
C4_TerminatePrecedence ==
    [][pc = "check" =>
         /\ reason' = (IF GradientSmall(state) THEN "TargetPrecisionReached"
                       ELSE IF CostUnchanged(state) THEN "NoChangeInCost"
                       ELSE "NotTerminated")
         /\ state' = state
         /\ inv_hessian' = inv_hessian]_vars

\* C4 witness: terminate answered TargetPrecisionReached on a state whose
\* gradient is small but not zero and whose cost did not change either
C4_Witness ==
    /\ pc = "done"
    /\ reason = "TargetPrecisionReached"
    /\ CostUnchanged(state)
    /\ \E i \in DOMAIN state.cur_grad : ~IsZero(state.cur_grad[i])

\* C5: a step whose line search or whose gradient evaluation fails returns that
\* error, and leaves the inverse-Hessian approximation exactly as it was before
\* the step; the approximation changes only in a step in which both succeeded.
C5_FailedStepKeepsHessian ==
    /\ (call.name = "next_iter" /\ ~call.ls_ok) =>
           /\ result = Failure("next_iter", "LineSearchError")
           /\ inv_hessian = call.h_pre
    /\ (call.name = "next_iter" /\ call.ls_ok /\ ~call.grad_ok) =>
           /\ result = Failure("next_iter", "EvaluationError")
           /\ inv_hessian = call.h_pre
    /\ (call.name = "next_iter" /\ inv_hessian # call.h_pre) => (StepDone /\ result.ok)

\* C5 witness: a step fails at the gradient evaluation after an earlier step
\* updated the approximation
C5_Witness ==
    /\ call.name = "next_iter"
    /\ call.ls_ok
    /\ ~call.grad_ok
    /\ pc = "failed"
    /\ iter = 1
    /\ inv_hessian # init_hessian

\* the run of the specification's end-to-end test
BowlRun ==
    /\ op.kind = "bowl"
    /\ init_param = <<Zero, Zero>>
    /\ init_hessian = <<<<Num(1), Zero>>, <<Zero, Num(1)>>>>

\* C6: on f(x,y) = (x-1)^2 + (y-2)^2 from (0,0) with H_0 = identity and an exact
\* line search, the run never fails, reaches (1,2) with its first step, and
\* terminate then returns TargetPrecisionReached: one iteration in all.
C6_BowlConverges ==
    BowlRun =>
        /\ pc # "failed"
        /\ iter <= 1
        /\ iter = 1 => state.cur_param = <<Num(1), Num(2)>>
        /\ (iter = 1 /\ pc # "check") =>
               /\ pc = "done"
               /\ reason = "TargetPrecisionReached"
               /\ GradientSmall(state)

\* C6 witness: that run has terminated at (1,2)
C6_Witness ==
    /\ BowlRun
    /\ pc = "done"
    /\ state.cur_param = <<Num(1), Num(2)>>
    /\ reason = "TargetPrecisionReached"

\* C7: init returns the starting parameter with the cost and the gradient
\* evaluated there; if either evaluation fails it returns the evaluation error
\* and no result; either way the inverse-Hessian approximation is the one given
\* at construction.
C7_InitContract ==
    call.name = "init" =>
        /\ inv_hessian = init_hessian
        /\ call.st_pre.cur_param = init_param
        /\ IF call.apply_ok /\ call.grad_ok
           THEN result = Success("init", [param |-> init_param,
                                          cost |-> call.apply_val,
                                          grad |-> call.gk1])
           ELSE result = Failure("init", "EvaluationError")
        /\ (op.kind = "bowl" /\ init_param = <<Num(3), Zero>>) =>
               /\ result.ok
               /\ result.data.cost = Num(8)
               /\ result.data.grad = <<Num(4), Num(-4)>>

\* C7 witness: init failed at the gradient evaluation, after the cost
\* evaluation succeeded
C7_Witness ==
    /\ call.name = "init"
    /\ call.apply_ok
    /\ ~call.grad_ok
    /\ pc = "failed"

\* C8: the line search of every step runs with the initial point, gradient and
\* cost of the iteration state the step was given and with the direction
\* -(H_k * g_k) of the approximation at the start of the step.
C8_LineSearchConfiguredFresh ==
    call.name = "next_iter" =>
        call.ls_run =
            [init_param |-> call.st_pre.cur_param,
             init_grad |-> call.st_pre.cur_grad,
             init_cost |-> call.st_pre.cur_cost,
             search_direction |->
                 [i \in DOMAIN call.h_pre |->
                    FNeg(FSum([j \in DOMAIN call.st_pre.cur_grad |->
                                 FMul(call.h_pre[i][j], call.st_pre.cur_grad[j])]))]]

\* C8 witness: a second step, whose line search starts from another point and
\* along another direction than a first step's
C8_Witness ==
    /\ call.name = "next_iter"
    /\ iter = 2
    /\ call.st_pre.cur_param # init_param
    /\ call.h_pre # init_hessian
    /\ call.ls_run.init_param = call.st_pre.cur_param

\* C9: if the approximation given at construction is symmetric, the
\* approximation is symmetric after any sequence of calls.
C9_SymmetryPreserved == IsSymmetric(init_hessian) => IsSymmetric(inv_hessian)

\* C9 witness: a symmetric start, and two steps that each updated it
C9_Witness ==
    /\ IsSymmetric(init_hessian)
    /\ iter = 2
    /\ StepDone
    /\ inv_hessian # call.h_pre
    /\ call.h_pre # init_hessian
    /\ \E i \in DOMAIN inv_hessian : \E j \in DOMAIN inv_hessian :
         i # j /\ ~IsZero(inv_hessian[i][j])

\* C10: after every step in which the update is applied, the new approximation
\* maps the step's gradient difference to its parameter difference,
\* H_{k+1} * y_k = s_k.
C10_SecantCondition ==
    (StepDone /\ GuardPasses(CodeFactor)) =>
        [i \in DOMAIN inv_hessian |->
           FSum([j \in DOMAIN Yk |-> FMul(inv_hessian[i][j], Yk[j])])] = Sk

====
